---- MODULE Spec2Model ----
(***************************************************************************)
(* A model of cardcomposer: CardFace construction (template inheritance),  *)
(* CardFace.generate() (step ordering and execution) and the step handlers *)
(* of the PresetSteps extension that act on the caches or end a            *)
(* generation, resolve_deferred_value with the cached, calc, arith, seeded *)
(* and mapped resolvers of the PresetValues extension, the generation of a *)
(* template inside a step (image_from_template), and the registration of   *)
(* the two extensions in the class.                                        *)
(*                                                                         *)
(* Python values are modelled as follows.                                  *)
(*   None (a size)        NoSize, the empty tuple (both are falsy)         *)
(*   None (an image)      NoImage                                          *)
(*   an image             [kind, size, layers]: its size and the images    *)
(*                        composited onto it, in order                     *)
(*   a dict               a function whose DOMAIN is the set of its keys   *)
(*   a priority           [kind, val]: kind "none" is None, "int" a number,*)
(*                        "str" a string (val is its rank in string order) *)
(*   a step value         a tree [t, n, s, c]: its type, its number, its   *)
(*                        string, and its items as entries [k, v]          *)
(*   an object reference  a location [root, key, path] in a store of the   *)
(*                        argument of the call and the cache of the face   *)
(*   a raised exception   the name of its class                            *)
(***************************************************************************)
EXTENDS Integers, Sequences, FiniteSets, TLC

VARIABLES
    faces,          \* the CardFace objects constructed so far, in order
    cache,          \* cache[f]: CardFace.cache of face f
    working_image,  \* working_image[f]: CardFace.working_image of face f
    global_cache,   \* the cache shared by every face (card_face.global_cache)
    stack,          \* the generate() calls in progress, innermost last, each
                    \* with the outcome that was the last when it began
    outcome,        \* how the last constructor or generate() call ended
    calls,          \* number of generate() calls made so far
    random_state,   \* the generator of the random module
    resolutions,    \* the resolve_deferred_value calls made from outside the
                    \* step handlers, with how each ended
    target_cls      \* the class being composed: its STEP_HANDLERS and
                    \* DEFERRED_VALUE_RESOLVERS, and the extensions applied

vars == <<faces, cache, working_image, global_cache, stack, outcome, calls,
          random_state, resolutions, target_cls>>

-----------------------------------------------------------------------------
(* Bounds of the model *)

MaxSteps == 2
MaxSortSteps == 4
MaxGenerations == 2
MaxFaces == 3
MaxTemplates == 2
MaxResolutions == 2
MaxSeededResolutions == 3
MaxDraws == 3
MaxExtensions == 3
MaxTemplateFaces == 4
MaxDoSteps == 2
MaxNesting == 3
MaxEndToEndResolutions == 1

-----------------------------------------------------------------------------
(* Values *)

NoSize == <<>>
NoImage == [kind |-> "None", size |-> NoSize, layers |-> <<>>]
EmptyCache == [k \in {} |-> 0]

NoPriority == [kind |-> "none", val |-> 0]
IntPriority(n) == [kind |-> "int", val |-> n]
StrPriority(n) == [kind |-> "str", val |-> n]

\* Image.new("RGBA", size)
ImageNew(size) == [kind |-> "Image", size |-> size, layers |-> <<>>]

\* Image.alpha_composite(image, layer holding embed_image): a new image of
\* the same size with embed_image drawn over what was there
AlphaComposite(image, embed_image) ==
    [image EXCEPT !.layers = Append(image.layers, embed_image)]

\* dict[key] = value
DictSet(dict, key, value) ==
    [k \in (DOMAIN dict) \cup {key} |-> IF k = key THEN value ELSE dict[k]]

-----------------------------------------------------------------------------
(* Values of step data and of the caches: what a JSON card definition can
   hold, and what the resolvers make of it. A value is a record of its Python
   type t and, by type: n, the number of a number or a bool; s, the text of a
   string; c, the items of a list, a tuple or a dict in their order, each an
   entry of a key (k, "" in a list or a tuple) and a value (v). *)

Value(t, n, s, c) == [t |-> t, n |-> n, s |-> s, c |-> c]
Entry(k, v) == [k |-> k, v |-> v]

None == Value("none", 0, "", <<>>)
Num(n) == Value("num", n, "", <<>>)
Str(s) == Value("str", 0, s, <<>>)
Bool(b) == Value("bool", IF b THEN 1 ELSE 0, "", <<>>)
List(items) == Value("list", 0, "", [i \in DOMAIN items |-> Entry("", items[i])])
Tuple(items) == Value("tuple", 0, "", [i \in DOMAIN items |-> Entry("", items[i])])
Dict(entries) == Value("dict", 0, "", entries)

\* an object that deepcopy raises on, such as an open file or a native handle
Handle(name) == Value("handle", 0, name, <<>>)

\* the float that is the draw-th number of the generator seeded with seed,
\* times mult, rounded when is_int
Random(seed, draw, mult, is_int) ==
    Value("random", draw, "",
          <<Entry("seed", seed), Entry("mult", mult), Entry("is_int", is_int)>>)

\* key in value, value[key] and value[key] = new, for a dict
Has(value, key) == \E i \in DOMAIN value.c : value.c[i].k = key
IndexOf(value, key) == CHOOSE i \in DOMAIN value.c : value.c[i].k = key
Get(value, key) == value.c[IndexOf(value, key)].v
SetItem(value, key, new) ==
    IF Has(value, key) THEN [value EXCEPT !.c[IndexOf(value, key)].v = new]
    ELSE [value EXCEPT !.c = Append(@, Entry(key, new))]

\* deepcopy(value) succeeds
RECURSIVE Copyable(_)
Copyable(value) ==
    /\ value.t # "handle"
    /\ \A i \in DOMAIN value.c : Copyable(value.c[i].v)

\* deferred expressions, as a card definition writes them
Cached(key) == Dict(<<Entry("deferred", Str("cached")), Entry("key", key)>>)
CachedOr(key, default) ==
    Dict(<<Entry("deferred", Str("cached")), Entry("key", key),
           Entry("default", default)>>)
Seeded(seed, n, is_int, mult) ==
    Dict(<<Entry("deferred", Str("seeded")), Entry("seed", seed), Entry("n", n),
           Entry("is_int", is_int), Entry("mult", mult)>>)
Calc(op, args) ==
    Dict(<<Entry("deferred", Str("calc")), Entry("op", Str(op)),
           Entry("args", List(args))>>)
Arith(args) == Dict(<<Entry("deferred", Str("arith")), Entry("args", args)>>)
Mapped(map_to, key, values, map_deferred_type) ==
    Dict(<<Entry("deferred", Str("mapped")), Entry("map_to", map_to),
           Entry("key", key), Entry("values", values),
           Entry("map_deferred_type", map_deferred_type)>>)

-----------------------------------------------------------------------------
(* Steps: the dicts of a card definition's "steps" list *)

Modes == {"add", "update", "add_or_update", "add_or_skip", "replace"}
Keys == {"x", "y"}
Values == {Num(1), Num(2)}
Images == {"a", "b"}

Step(type, priority, entries, mode, is_lazy, is_global, image) ==
    [type |-> type, priority |-> priority, entries |-> entries, mode |-> mode,
     is_lazy |-> is_lazy, is_global |-> is_global, image |-> image,
     do_step |-> "absent", deferred |-> ""]

\* the step with "do_step" set, to "True" or "False"
DoStep(step, flag) == [step EXCEPT !.do_step = flag]

WriteToCacheStep(priority, key, value, mode, is_global) ==
    Step("write_to_cache", priority, <<<<key, value>>>>, mode, TRUE, is_global, "a")
PasteImageStep(priority, image) ==
    Step("paste_image", priority, <<>>, "add", TRUE, FALSE, image)
\* a paste_image step whose image is the deferred value
\* {"deferred": "image_from_template", "label": label}
PasteTemplateStep(priority, label) ==
    [PasteImageStep(priority, label) EXCEPT !.deferred = "image_from_template"]
StopStep(priority) == Step("stop", priority, <<>>, "add", TRUE, FALSE, "a")
CancelStep(priority) == Step("cancel", priority, <<>>, "add", TRUE, FALSE, "a")

-----------------------------------------------------------------------------
(* CardFace.__init__ *)

RECURSIVE Concat(_)
Concat(seqs) == IF seqs = <<>> THEN <<>> ELSE Head(seqs) \o Concat(Tail(seqs))

\* self.size: the explicit size if there is one, otherwise the size of the
\* first template, in listed order, that has one (the loop breaks there)
FaceSize(size, template_sizes) ==
    IF size # NoSize THEN size
    ELSE LET sized == {i \in DOMAIN template_sizes : template_sizes[i] # NoSize}
         IN IF sized = {} THEN NoSize
            ELSE template_sizes[CHOOSE i \in sized : \A j \in sized : i <= j]

\* self.cumulative_templates: the cumulative templates of each template, in
\* listed order, followed by the templates themselves
CumulativeTemplates(templates) ==
    Concat([i \in DOMAIN templates |-> faces[templates[i]].cumulative_templates])
        \o templates

\* self.cumulative_steps: the cumulative steps of each template, in listed
\* order, followed by the face's own steps
CumulativeSteps(templates, steps) ==
    Concat([i \in DOMAIN templates |-> faces[templates[i]].cumulative_steps])
        \o steps

\* the validation loop: some label occurs twice among the cumulative templates
DuplicateTemplateLabel(cumulative_templates) ==
    \E i, j \in DOMAIN cumulative_templates :
        /\ i < j
        /\ faces[cumulative_templates[i]].label = faces[cumulative_templates[j]].label

\* card_face.parent when it is None (faces are numbered from 1)
NoParent == 0

Outcome(op, face, kind, exc, result, canvas, executed) ==
    [op |-> op, face |-> face, kind |-> kind, exc |-> exc, result |-> result,
     canvas |-> canvas, executed |-> executed]

Raised(op, face, exc, canvas, executed) ==
    Outcome(op, face, "raised", exc, NoImage, canvas, executed)

\* CardFace(label, templates, size, steps): templates are faces built earlier.
\* size_arg records the size argument, which the object itself does not keep
Construct(label, templates, size, steps) ==
    LET face == [label |-> label,
                 size_arg |-> size,
                 templates |-> templates,
                 steps |-> steps,
                 size |-> FaceSize(size, [i \in DOMAIN templates |-> faces[templates[i]].size]),
                 cumulative_templates |-> CumulativeTemplates(templates),
                 cumulative_steps |-> CumulativeSteps(templates, steps),
                 parent |-> NoParent]
    IN IF DuplicateTemplateLabel(face.cumulative_templates)
       THEN /\ outcome' = Raised("init", 0, "ValueError", NoImage, <<>>)
            /\ UNCHANGED <<faces, cache, working_image, global_cache, stack, calls,
                           random_state, resolutions, target_cls>>
       ELSE /\ faces' = Append(faces, face)
            /\ cache' = Append(cache, EmptyCache)
            /\ working_image' = Append(working_image, NoImage)
            /\ outcome' = Outcome("init", Len(faces) + 1, "returned", "none",
                                  NoImage, NoImage, <<>>)
            /\ UNCHANGED <<global_cache, stack, calls, random_state, resolutions, target_cls>>

-----------------------------------------------------------------------------
(* Sorting the steps: CardFace.generate, "Sorting steps" *)

\* a < b on two priorities is defined for two numbers or two strings; for
\* any other pair Python raises TypeError
Orderable(a, b) == a.kind = b.kind /\ a.kind # "none"

\* the key with its two parts swapped: (index, priority)
TupleLessIndexFirst(k1, k2) == IF k1.index < k2.index THEN "True" ELSE "False"

\* (priority, index) < (priority, index) as Python compares tuples: the first
\* elements that differ (by ==) decide, with <
TupleLess(k1, k2) ==
    IF k1.priority = k2.priority
    THEN (IF k1.index < k2.index THEN "True" ELSE "False")
    ELSE IF ~Orderable(k1.priority, k2.priority) THEN "TypeError"
    ELSE IF k1.priority.val < k2.priority.val THEN "True" ELSE "False"

IndexLess(k1, k2) == IF k1.index < k2.index THEN "True" ELSE "False"

\* the < of the sort, on the keys the key function gives: (priority, index)
\* in the first sort, index in the second
Less(by_priority, k1, k2) ==
    IF by_priority THEN TupleLess(k1, k2) ELSE IndexLess(k1, k2)

\* the place of pivot among list[l..r-1], which is sorted, found by bisection
RECURSIVE Bisect(_, _, _, _, _)
Bisect(by_priority, list, pivot, l, r) ==
    IF l >= r THEN [ok |-> TRUE, pos |-> l]
    ELSE LET p == l + ((r - l) \div 2)
             c == Less(by_priority, pivot, list[p])
         IN IF c = "TypeError" THEN [ok |-> FALSE, pos |-> 0]
            ELSE IF c = "True" THEN Bisect(by_priority, list, pivot, l, p)
            ELSE Bisect(by_priority, list, pivot, p + 1, r)

\* list.sort(key=...) of a short list: a stable binary insertion sort. A
\* comparison that raises ends the sort and leaves the list as far as it had
\* been ordered: [ok, list]
RECURSIVE ListSort(_, _, _)
ListSort(by_priority, list, start) ==
    IF start > Len(list) THEN [ok |-> TRUE, list |-> list]
    ELSE LET found == Bisect(by_priority, list, list[start], 1, start)
         IN IF ~found.ok THEN [ok |-> FALSE, list |-> list]
            ELSE ListSort(by_priority,
                          SubSeq(list, 1, found.pos - 1) \o <<list[start]>>
                              \o SubSeq(list, found.pos, start - 1)
                              \o SubSeq(list, start + 1, Len(list)),
                          start + 1)

\* steps_sort_keys, as built by the loop over enumerate(cumulative_steps)
StepsSortKeys(cumulative_steps) ==
    [i \in DOMAIN cumulative_steps |->
        [index |-> i, priority |-> cumulative_steps[i].priority]]

\* the except clause without its sort
SortByIndexSkipped(steps_sort_keys) == steps_sort_keys

\* except TypeError: steps_sort_keys.sort(key=index), on the list as the
\* failed sort left it
SortByIndex(steps_sort_keys) == ListSort(FALSE, steps_sort_keys, 1).list

\* try: sort by (priority, index); except TypeError: sort by index
SortStepsKeys(steps_sort_keys) ==
    LET tried == ListSort(TRUE, steps_sort_keys, 1)
    IN IF tried.ok THEN tried.list ELSE SortByIndex(tried.list)

\* ordered_steps, each step named by its index in cumulative_steps
OrderedSteps(cumulative_steps) ==
    LET sorted == SortStepsKeys(StepsSortKeys(cumulative_steps))
    IN [i \in DOMAIN sorted |-> sorted[i].index]

-----------------------------------------------------------------------------
(* Objects and the places they are held. resolve_deferred_value works on a
   copy of its argument, unless the copy fails, and on the object a cache
   holds when it reads one: an assignment into such an object is seen by
   whoever holds it. A store is what one call can reach: the object passed by
   the outermost caller (arg), the face's cache, and the state of the random
   module. A location names an object of the store: the argument or the
   cache entry of a key, and from there the path of item positions to it; or
   it says that the object is held by nobody else (root "none"). *)

Store(arg, face_cache, random) ==
    [arg |-> arg, cache |-> face_cache, random |-> random]

NoLoc == [root |-> "none", key |-> "", path |-> <<>>]
ArgLoc == [root |-> "arg", key |-> "", path |-> <<>>]
CacheLoc(key) == [root |-> "cache", key |-> key, path |-> <<>>]

\* the place of the i-th item of a container at loc
Sub(loc, i) ==
    IF loc.root = "none" THEN loc ELSE [loc EXCEPT !.path = Append(@, i)]

RECURSIVE GetAt(_, _)
GetAt(value, path) ==
    IF path = <<>> THEN value ELSE GetAt(value.c[Head(path)].v, Tail(path))

RECURSIVE SetAt(_, _, _)
SetAt(value, path, new) ==
    IF path = <<>> THEN new
    ELSE [value EXCEPT !.c[Head(path)].v = SetAt(@, Tail(path), new)]

\* the object at loc, which is not NoLoc
Read(store, loc) ==
    IF loc.root = "arg" THEN GetAt(store.arg, loc.path)
    ELSE GetAt(store.cache[loc.key], loc.path)

\* the item at loc is assigned new
Write(store, loc, new) ==
    CASE loc.root = "none" -> store
      [] loc.root = "arg" -> [store EXCEPT !.arg = SetAt(@, loc.path, new)]
      [] loc.root = "cache" ->
            [store EXCEPT !.cache[loc.key] = SetAt(@, loc.path, new)]

-----------------------------------------------------------------------------
(* The random module: one generator shared by the whole process *)

\* the generator as the interpreter starts it, seeded from the system
Unseeded == [seed |-> Value("entropy", 0, "", <<>>), drawn |-> 0]

\* random.seed(seed) without its effect
RandomSeedSkipped(random, seed) == random

\* random.seed(seed)
RandomSeed(random, seed) == [seed |-> seed, drawn |-> 0]

\* count calls of random.random(), their values dropped
RandomSkip(random, count) ==
    [random EXCEPT !.drawn = @ + (IF count > 0 THEN count ELSE 0)]

\* random.random(): after it the generator has drawn one more number, and
\* the value returned is that number
RandomRandom(random) == [random EXCEPT !.drawn = @ + 1]

-----------------------------------------------------------------------------
(* Deferred values: CardFace.resolve_deferred_value, with the resolvers of the
   PresetValues extension *)

\* resolve_deferred_value on a step parameter that is a plain Python string,
\* number or bool, written here without its type: the while loop is not
\* entered (no deferred type), the recursive conversion does not apply, and
\* the copy of the value is returned
ResolveScalar(value) == value

DeferredValue ==
    {"self", "calc", "arith", "seeded", "mapped", "label", "config", "cached",
     "card_dim", "working_image", "parent", "image_from_file", "blank_image",
     "image_from_template", "font", "text_length", "text_bbox"}

\* _deferred_value_type(value): "" for None, "TypeError" when it raises
DeferredValueType(value) ==
    IF value.t # "dict" THEN ""
    ELSE IF ~Has(value, "deferred") THEN ""
    ELSE IF Get(value, "deferred").t # "str" THEN "TypeError"
    ELSE IF Get(value, "deferred").s \notin DeferredValue THEN "TypeError"
    ELSE Get(value, "deferred").s

\* how a call of resolve_deferred_value ends: exc is "none" when it returns
\* value, the class of the exception when it raises, Unending when it does
\* neither; store is what it leaves behind
Unending == "(never ends)"
Res(exc, value, store) == [exc |-> exc, value |-> value, store |-> store]

\* what a resolver makes of the working value: the next working value and
\* the place it is held
Resolved(exc, value, loc, store) ==
    [exc |-> exc, value |-> value, loc |-> loc, store |-> store]

\* value.get(name, default), with the place of what it returns
Param(value, loc, name, default) ==
    IF Has(value, name)
    THEN [value |-> Get(value, name), loc |-> Sub(loc, IndexOf(value, name))]
    ELSE [value |-> default, loc |-> NoLoc]

\* the try of PresetValues.__resolve_cached: card_face.cache[cache_key], or
\* a KeyError
ResolveCached(cache_key, face_cache) ==
    IF cache_key \in DOMAIN face_cache
    THEN [exc |-> "none", value |-> face_cache[cache_key]]
    ELSE [exc |-> "KeyError", value |-> None]

RECURSIVE ResolveDeferredValue(_, _, _, _)

\* the one member of a set of one member: The({e(x) : x \in {v}}) is e(v),
\* with v computed once
The(set) == CHOOSE x \in set : TRUE

\* card_face.resolve_deferred_value(value.get(name, default)), or of
\* value[name] for a name value has
ResolveParam(value, loc, name, default, store, active) ==
    The({ResolveDeferredValue(param.value, param.loc, store, active) :
            param \in {Param(value, loc, name, default)}})

\* the parameters of a resolver, resolved one after the other, each in the
\* store the one before left, up to the first that raises; params holds
\* their names, each with its default
RECURSIVE ResolveParams(_, _, _, _, _, _)
ResolveParams(value, loc, params, store, active, acc) ==
    IF Len(acc) = Len(params) THEN [exc |-> "none", values |-> acc, store |-> store]
    ELSE The({IF done.exc # "none"
              THEN [exc |-> done.exc, values |-> acc, store |-> done.store]
              ELSE ResolveParams(value, loc, params, done.store, active,
                                 Append(acc, done.value)) :
                 done \in {ResolveParam(value, loc, params[Len(acc) + 1].k,
                                        params[Len(acc) + 1].v, store, active)}})

\* PresetValues.__resolve_cached: the object the cache holds under the key,
\* not a copy of it; the default when the cache has no such key
ResolveCachedValue(value, loc, store, active) ==
    IF ~Has(value, "key") THEN Resolved("KeyError", None, NoLoc, store)
    ELSE The({
        LET key == args.values[1]
            found == IF key.t = "str" THEN ResolveCached(key.s, args.store.cache)
                     ELSE [exc |-> "KeyError", value |-> None]
            default == Param(value, loc, "default", None)
        IN IF args.exc # "none" THEN Resolved(args.exc, None, NoLoc, args.store)
           ELSE IF key.t \in {"list", "dict"}
           THEN Resolved("TypeError", None, NoLoc, args.store)
           ELSE IF found.exc = "none"
           THEN Resolved("none", found.value, CacheLoc(key.s), args.store)
           ELSE IF Has(value, "default")
           THEN Resolved("none", default.value, default.loc, args.store)
           ELSE Resolved("KeyError", None, NoLoc, args.store) :
        args \in {ResolveParams(value, loc, <<Entry("key", None)>>, store, active, <<>>)}})

\* the keys of Constants.CALCULATIONS_LOOKUP
CalculationsLookup ==
    {"+", "*", "-", "/", "//", "**", "%", "round", "sum", "min", "max", "getitem",
     "dict.get", "getattr", "str.format", "path.join", "if", "contains", "not",
     "eq", "ne", "gt", "ge", "lt", "le", "int", "float", "str", "and", "or",
     "all", "any", "is", "is_not", "json.dumps", "json.loads"}

\* a Python int, a bool being one
IsInt(value) == value.t \in {"num", "bool"}

\* every operation taken for operator.add
CalculateAsAdd(operation_key, a, b) == a + b

\* operator.add, operator.sub and operator.mul on two ints
Calculate(operation_key, a, b) ==
    IF operation_key = "+" THEN a + b
    ELSE IF operation_key = "-" THEN a - b
    ELSE a * b

\* PresetValues.__resolve_standard_calculation, for the operations add, sub
\* and mul on operands that are ints or None: a calculation that raises
\* gives the default, the object value holds, or KeyError without one
ResolveStandardCalculation(value, loc, store, active) ==
    IF ~Has(value, "op") \/ ~Has(value, "args")
    THEN Resolved("KeyError", None, NoLoc, store)
    ELSE The({
        LET operation_key == args.values[1]
            operands == args.values[2]
            default == Param(value, loc, "default", None)
        IN IF args.exc # "none" THEN Resolved(args.exc, None, NoLoc, args.store)
           ELSE IF operation_key.t # "str" \/ operation_key.s \notin CalculationsLookup
           THEN Resolved("KeyError", None, NoLoc, args.store)
           ELSE IF operands.t \in {"none", "num", "bool"}
           THEN Resolved("TypeError", None, NoLoc, args.store)
           ELSE IF \/ operation_key.s \notin {"+", "-", "*"}
                   \/ operands.t \notin {"list", "tuple"}
                   \/ \E i \in DOMAIN operands.c :
                          ~IsInt(operands.c[i].v) /\ operands.c[i].v.t # "none"
           THEN Resolved("NotImplementedError", None, NoLoc, args.store)
                \* a calculation that is not part of this model
           ELSE IF Len(operands.c) = 2 /\ \A i \in DOMAIN operands.c : IsInt(operands.c[i].v)
           THEN Resolved("none",
                         Num(Calculate(operation_key.s, operands.c[1].v.n,
                                       operands.c[2].v.n)),
                         NoLoc, args.store)
           ELSE IF Has(value, "default")
           THEN Resolved("none", default.value, default.loc, args.store)
           ELSE Resolved("KeyError", None, NoLoc, args.store) :
        args \in {ResolveParams(value, loc,
                                <<Entry("op", None), Entry("args", None),
                                  Entry("do_log", Bool(FALSE))>>,
                                store, active, <<>>)}})

\* Constants.ARITHMETIC_ORDER
ArithmeticOrder == <<{"**"}, {"*", "/", "//", "%"}, {"+", "-"}>>

\* value is an instance of numbers.Number, a bool being an int
IsNumber(value) == value.t \in {"num", "bool"}

\* operator.pow on an int and an exponent that is not negative
RECURSIVE Pow(_, _)
Pow(a, b) == IF b = 0 THEN 1 ELSE a * Pow(a, b - 1)

\* Constants.CALCULATIONS_LOOKUP[op](a, b) for two ints. What gives a float
\* that is no whole number (a negative exponent, an inexact true division)
\* and the division by a negative number are not part of this model; a
\* float that is a whole number is held as that number, to which it is equal
Arithmetic(op, a, b) ==
    IF op = "+" THEN [exc |-> "none", n |-> a + b]
    ELSE IF op = "-" THEN [exc |-> "none", n |-> a - b]
    ELSE IF op = "*" THEN [exc |-> "none", n |-> a * b]
    ELSE IF op = "**"
    THEN (IF b < 0 THEN [exc |-> "NotImplementedError", n |-> 0]
          ELSE [exc |-> "none", n |-> Pow(a, b)])
    ELSE IF b = 0 THEN [exc |-> "ZeroDivisionError", n |-> 0]
    ELSE IF b < 0 \/ (op = "/" /\ a % b # 0)
    THEN [exc |-> "NotImplementedError", n |-> 0]
    ELSE IF op = "%" THEN [exc |-> "none", n |-> a % b]
    ELSE [exc |-> "none", n |-> a \div b]

\* the operators of a group taken from the right
LastGroupOpIndex(found) == CHOOSE i \in found : \A j \in found : j <= i

\* first_group_op_index, of the places found where working_args holds an
\* operator of the group: the smallest
FirstGroupOpIndex(found) == CHOOSE i \in found : \A j \in found : i <= j

\* the while loop over one group of operators: the operator of the group
\* that comes first in working_args, a sequence of values, is replaced with
\* its two neighbours by its result, until none is left
RECURSIVE ReduceGroup(_, _)
ReduceGroup(working_args, arithmetic_op_group) ==
    The({
        IF found = {} THEN [exc |-> "none", args |-> working_args]
        ELSE The({
            IF (first_group_op_index < 2) \/ (first_group_op_index >= Len(working_args))
            THEN [exc |-> "ValueError", args |-> working_args]
            ELSE IF \/ ~IsNumber(working_args[first_group_op_index - 1])
                    \/ ~IsNumber(working_args[first_group_op_index + 1])
            THEN [exc |-> "ValueError", args |-> working_args]
            ELSE The({
                IF arithmetic_result.exc # "none"
                THEN [exc |-> arithmetic_result.exc, args |-> working_args]
                ELSE ReduceGroup(
                        SubSeq(working_args, 1, first_group_op_index - 2)
                        \o <<Num(arithmetic_result.n)>>
                        \o SubSeq(working_args, first_group_op_index + 2,
                                  Len(working_args)),
                        arithmetic_op_group) :
                arithmetic_result \in {
                    Arithmetic(working_args[first_group_op_index].s,
                               working_args[first_group_op_index - 1].n,
                               working_args[first_group_op_index + 1].n)}}) :
            first_group_op_index \in {FirstGroupOpIndex(found)}}) :
        found \in {{i \in DOMAIN working_args :
                        /\ working_args[i].t = "str"
                        /\ working_args[i].s \in arithmetic_op_group}}})

\* the for loop over Constants.ARITHMETIC_ORDER, from the group-th group on
RECURSIVE ReduceGroups(_, _)
ReduceGroups(working_args, group) ==
    IF group > Len(ArithmeticOrder) THEN [exc |-> "none", args |-> working_args]
    ELSE The({
        IF reduced.exc # "none" THEN reduced
        ELSE ReduceGroups(reduced.args, group + 1) :
        reduced \in {ReduceGroup(working_args, ArithmeticOrder[group])}})

\* the outer while loop of __resolve_arithmetic_equation. args is a list
\* that resolve_deferred_value returned, whose items the loop resolves again
\* to themselves. seen holds the turns the loop has been at, each as its
\* args and depth_indexes: as a turn is decided by the two, the loop that
\* comes to one of them again does not end
RECURSIVE ArithmeticLoop(_, _, _)
ArithmeticLoop(args, depth_indexes, seen) ==
    IF <<args, depth_indexes>> \in seen THEN [exc |-> Unending, value |-> None]
    ELSE The({
        IF sub_lists # {}
        THEN ArithmeticLoop(args, Append(depth_indexes, FirstGroupOpIndex(sub_lists)),
                            seen \cup {<<args, depth_indexes>>})
        ELSE The({
            IF reduced.exc # "none" THEN [exc |-> reduced.exc, value |-> None]
            ELSE IF Len(reduced.args) > 1 THEN [exc |-> "ValueError", value |-> None]
            ELSE IF reduced.args = <<>> THEN [exc |-> "IndexError", value |-> None]
            ELSE IF depth_indexes # <<>>
            THEN ArithmeticLoop(SetAt(args, depth_indexes, reduced.args[1]),
                                SubSeq(depth_indexes, 1, Len(depth_indexes) - 1),
                                seen \cup {<<args, depth_indexes>>})
            ELSE [exc |-> "none", value |-> reduced.args[1]] :
            reduced \in {ReduceGroups(
                            [i \in DOMAIN GetAt(args, depth_indexes).c |->
                                GetAt(args, depth_indexes).c[i].v], 1)}}) :
        sub_lists \in {{i \in DOMAIN GetAt(args, depth_indexes).c :
                            GetAt(args, depth_indexes).c[i].v.t = "list"}}})

\* PresetValues.__resolve_arithmetic_equation, for args that resolve to a
\* list or a tuple
ResolveArithmeticEquation(value, loc, store, active) ==
    IF ~Has(value, "args") THEN Resolved("KeyError", None, NoLoc, store)
    ELSE The({
        IF args.exc # "none" THEN Resolved(args.exc, None, NoLoc, args.store)
        ELSE IF args.value.t \in {"none", "num", "bool"}
        THEN Resolved("TypeError", None, NoLoc, args.store)
        ELSE IF args.value.t \notin {"list", "tuple"}
        THEN Resolved("NotImplementedError", None, NoLoc, args.store)
        ELSE The({Resolved(result.exc, result.value, NoLoc, args.store) :
                    result \in {ArithmeticLoop([args.value EXCEPT !.t = "list"],
                                               <<>>, {})}}) :
        args \in {ResolveParam(value, loc, "args", None, store, active)}})

\* PresetValues.__resolve_seeded_random, for a seed that is a number or a
\* string
ResolveSeededRandom(value, loc, store, active) ==
    IF ~Has(value, "seed") THEN Resolved("KeyError", None, NoLoc, store)
    ELSE The({
        LET seed == args.values[1]
            n == args.values[2]
            is_int == args.values[3]
            mult == args.values[4]
            drawn == RandomRandom(RandomSkip(RandomSeed(args.store.random, seed),
                                             n.n - 1))
        IN IF args.exc # "none" THEN Resolved(args.exc, None, NoLoc, args.store)
           ELSE IF seed.t \notin {"num", "str"} \/ n.t # "num" \/ mult.t # "num"
           THEN Resolved("TypeError", None, NoLoc, args.store)
           ELSE Resolved("none", Random(drawn.seed, drawn.drawn, mult, is_int),
                         NoLoc, [args.store EXCEPT !.random = drawn]) :
        args \in {ResolveParams(value, loc,
                                <<Entry("seed", None), Entry("n", Num(1)),
                                  Entry("is_int", Bool(FALSE)), Entry("mult", Num(1))>>,
                                store, active, <<>>)}})

\* the loop of __resolve_mapped over values: each result is a copy of map_to
\* with key set to the value and, when map_deferred_type is not None,
\* "deferred" set to it. When map_to cannot be copied every result is map_to
\* itself, so that all of them show the last assignment
MappedTargets(map_to, key, values, map_deferred_type) ==
    LET target(i) ==
            LET keyed == SetItem(map_to, key, values[i])
            IN IF map_deferred_type.t = "none" THEN keyed
               ELSE SetItem(keyed, "deferred", map_deferred_type)
    IN IF Copyable(map_to) \/ values = <<>>
       THEN [i \in DOMAIN values |-> target(i)]
       ELSE [i \in DOMAIN values |-> target(Len(values))]

\* PresetValues.__resolve_mapped, for a map_to that is a dict, a key that is
\* a string and values that are a list or a tuple
ResolveMapped(value, loc, store, active) ==
    IF ~Has(value, "map_to") \/ ~Has(value, "key") \/ ~Has(value, "values")
    THEN Resolved("KeyError", None, NoLoc, store)
    ELSE The({
        LET map_to == args.values[1]
            key == args.values[2]
            values == args.values[3]
            map_deferred_type == args.values[4]
        IN IF args.exc # "none" THEN Resolved(args.exc, None, NoLoc, args.store)
           ELSE IF map_to.t # "dict" \/ key.t # "str"
                      \/ values.t \notin {"list", "tuple"}
           THEN Resolved("TypeError", None, NoLoc, args.store)
           ELSE Resolved("none",
                         List(MappedTargets(map_to, key.s,
                                            [i \in DOMAIN values.c |-> values.c[i].v],
                                            map_deferred_type)),
                         NoLoc, args.store) :
        args \in {ResolveParams(value, loc,
                                <<Entry("map_to", None), Entry("key", None),
                                  Entry("values", None),
                                  Entry("map_deferred_type", None)>>,
                                store, active, <<>>)}})

RECURSIVE ResolveItems(_, _, _, _, _)

\* the recursive conversion with the items left as they are
ResolveItemsSkipped(value, loc, store, active, acc) == Res("none", value, store)

\* the recursive conversion of a list, a tuple or a dict, item by item in
\* their order; acc holds the items resolved so far. For a list or a tuple
\* the resolved items make a new list (made a tuple again for a tuple); for a
\* dict each is assigned to its key in the dict itself
ResolveItems(value, loc, store, active, acc) ==
    IF Len(acc) = Len(value.c) THEN Res("none", [value EXCEPT !.c = acc], store)
    ELSE The({
        IF done.exc # "none" THEN Res(done.exc, None, done.store)
        ELSE ResolveItems(value, loc,
                          IF value.t = "dict"
                          THEN Write(done.store, Sub(loc, Len(acc) + 1), done.value)
                          ELSE done.store,
                          active,
                          Append(acc, Entry(value.c[Len(acc) + 1].k, done.value))) :
        done \in {ResolveDeferredValue(
                      IF loc.root = "none" THEN value.c[Len(acc) + 1].v
                      ELSE Read(store, Sub(loc, Len(acc) + 1)),
                      Sub(loc, Len(acc) + 1), store, active)}})

\* the while loop, then the recursive conversion. working_value is held at
\* loc. seen holds the working values the loop has been at, each with the
\* store it was at it with: as a turn of the loop is decided by the two, the
\* loop that comes to one of them again does not end
RECURSIVE ResolveLoop(_, _, _, _, _)
ResolveLoop(working_value, loc, store, seen, active) ==
    The({
        IF deferred_value = "TypeError" THEN Res("TypeError", None, store)
        ELSE IF deferred_value = ""
        THEN (IF working_value.t \in {"list", "tuple", "dict"}
              THEN ResolveItems(working_value, loc, store, active, <<>>)
              ELSE Res("none", working_value, store))
        ELSE IF <<working_value, store>> \in seen THEN Res(Unending, None, store)
        ELSE The({
            IF resolved.exc # "none" THEN Res(resolved.exc, None, resolved.store)
            ELSE ResolveLoop(resolved.value, resolved.loc, resolved.store,
                             seen \cup {<<working_value, store>>}, active) :
            resolved \in {
                IF deferred_value = "cached"
                THEN ResolveCachedValue(working_value, loc, store, active)
                ELSE IF deferred_value = "calc"
                THEN ResolveStandardCalculation(working_value, loc, store, active)
                ELSE IF deferred_value = "arith"
                THEN ResolveArithmeticEquation(working_value, loc, store, active)
                ELSE IF deferred_value = "seeded"
                THEN ResolveSeededRandom(working_value, loc, store, active)
                ELSE IF deferred_value = "mapped"
                THEN ResolveMapped(working_value, loc, store, active)
                ELSE Resolved("NotImplementedError", None, NoLoc, store)
                     \* a resolver that is not part of this model
            }}) :
        deferred_value \in {DeferredValueType(working_value)}})

\* Methods.try_copy(value), as the place of what it returns: a copy, held by
\* nobody else, or value itself when deepcopy raises
TryCopy(value, loc) == IF Copyable(value) THEN NoLoc ELSE loc

\* the recursive conversion returning a list for a tuple
ResolveDeferredValueAsLists(value, loc, store, active) ==
    The({IF done.exc = "none" /\ done.value.t = "tuple"
         THEN [done EXCEPT !.value.t = "list"]
         ELSE done :
            done \in {ResolveLoop(value, TryCopy(value, loc), store, {},
                                  active \cup {<<value, store>>})}})

\* card_face.resolve_deferred_value(value), for the value held at loc. active
\* holds the calls this one is nested in, each as its argument and the store
\* it was made with: a call made again inside itself recurses until Python
\* raises RecursionError
ResolveDeferredValue(value, loc, store, active) ==
    IF <<value, store>> \in active THEN Res("RecursionError", None, store)
    ELSE ResolveLoop(value, TryCopy(value, loc), store, {},
                     active \cup {<<value, store>>})

-----------------------------------------------------------------------------
(* Step handlers of the PresetSteps extension, the handlers the application
   composes into the CardFace class it builds its faces from. They read and
   write card_face.global_cache, which the CardFace of cardface.py does not
   declare: it is modelled as one dict shared by all faces. *)

\* how a handler ends (exc as for Res), and what it leaves behind: the two
\* caches, the random module, and the step's entries, which hold the objects
\* the handler passed to resolve_deferred_value
HandlerResult(exc, face_cache, shared_cache, random, entries) ==
    [exc |-> exc, cache |-> face_cache, global_cache |-> shared_cache,
     random |-> random, entries |-> entries]

\* mode "add" raising for a key of the local cache only
AddRaisesLocal(key, is_global, face_cache, shared_cache) ==
    key \in DOMAIN face_cache

\* mode "add" raising for a key of either cache whatever is_global says
AddRaisesEitherCache(key, is_global, face_cache, shared_cache) ==
    \/ key \in DOMAIN face_cache
    \/ key \in DOMAIN shared_cache

\* mode "add": the key is in the local cache or, with is_global, in the
\* global cache
AddRaises(key, is_global, face_cache, shared_cache) ==
    \/ key \in DOMAIN face_cache
    \/ is_global /\ key \in DOMAIN shared_cache

\* mode "update": the key is missing from the local cache or, with
\* is_global, from the global cache
UpdateRaises(key, is_global, face_cache, shared_cache) ==
    \/ key \notin DOMAIN face_cache
    \/ is_global /\ key \notin DOMAIN shared_cache

\* mode "add_or_skip" skipping for a key of the local cache only
SkipsEntryLocal(key, is_global, face_cache, shared_cache) ==
    key \in DOMAIN face_cache

\* mode "add_or_skip": continue, as the key is in the local cache or, with
\* is_global, in the global cache
SkipsEntry(key, is_global, face_cache, shared_cache) ==
    \/ key \in DOMAIN face_cache
    \/ is_global /\ key \in DOMAIN shared_cache

\* the loop over entries.items() of __step_write_to_cache: the entries
\* written before an entry raises stay written
RECURSIVE WriteEntries(_, _, _, _, _, _, _)
WriteEntries(entries, mode, is_lazy, is_global, face_cache, shared_cache, random) ==
    IF entries = <<>>
    THEN HandlerResult("none", face_cache, shared_cache, random, <<>>)
    ELSE
    LET key == Head(entries)[1]
        value == Head(entries)[2]
        \* what the checks of the mode make of the entry
        check == IF mode = "add"
                 THEN (IF AddRaises(key, is_global, face_cache, shared_cache)
                       THEN "ValueError" ELSE "write")
                 ELSE IF mode = "update"
                 THEN (IF UpdateRaises(key, is_global, face_cache, shared_cache)
                       THEN "KeyError" ELSE "write")
                 ELSE IF mode = "add_or_update" THEN "write"
                 ELSE IF mode = "add_or_skip"
                 THEN (IF SkipsEntry(key, is_global, face_cache, shared_cache)
                       THEN "continue" ELSE "write")
                 ELSE "ValueError"
    IN The({
        IF check \notin {"continue", "write"}
        THEN HandlerResult(check, face_cache, shared_cache, random, entries)
        ELSE IF resolved.exc # "none"
        THEN HandlerResult(resolved.exc, resolved.store.cache, shared_cache,
                           resolved.store.random,
                           <<<<key, resolved.store.arg>>>> \o Tail(entries))
        ELSE The({[done EXCEPT !.entries = <<<<key, resolved.store.arg>>>> \o @] :
                    done \in {IF check = "continue"
                              THEN WriteEntries(Tail(entries), mode, is_lazy, is_global,
                                                face_cache, shared_cache, random)
                              ELSE WriteEntries(Tail(entries), mode, is_lazy, is_global,
                                                DictSet(resolved.store.cache, key,
                                                        resolved.value),
                                                IF is_global
                                                THEN DictSet(shared_cache, key,
                                                             resolved.value)
                                                ELSE shared_cache,
                                                resolved.store.random)}}) :
        \* if not is_lazy: value = card_face.resolve_deferred_value(value)
        resolved \in {IF is_lazy \/ check # "write"
                      THEN Res("none", value, Store(value, face_cache, random))
                      ELSE ResolveDeferredValue(value, ArgLoc,
                                                Store(value, face_cache, random), {})}})

\* the handler writing to the global cache whatever is_global says
WriteToCacheEverywhere(step, face_cache, shared_cache, random) ==
    WriteEntries(step.entries,
                 ResolveScalar(step.mode),
                 ResolveScalar(step.is_lazy),
                 TRUE,
                 face_cache, shared_cache, random)

\* the handler that raises leaving the caches as it found them
WriteToCacheOrNothing(step, face_cache, shared_cache, random) ==
    The({IF done.exc = "none" THEN done
         ELSE HandlerResult(done.exc, face_cache, shared_cache, random, done.entries) :
            done \in {WriteEntries(step.entries,
                                   ResolveScalar(step.mode),
                                   ResolveScalar(step.is_lazy),
                                   ResolveScalar(step.is_global),
                                   face_cache, shared_cache, random)}})

\* PresetSteps.__step_write_to_cache(image, step, card_face); the image is
\* returned as it came
WriteToCache(step, face_cache, shared_cache, random) ==
    WriteEntries(step.entries,
                 ResolveScalar(step.mode),
                 ResolveScalar(step.is_lazy),
                 ResolveScalar(step.is_global),
                 face_cache, shared_cache, random)

\* the handler pasting onto a blank canvas of the size of the one it is given
PasteImageOnBlank(image, step) ==
    AlphaComposite(ImageNew(image.size), ResolveScalar(step.image))

\* PresetSteps.__step_paste_image(image, step, card_face)
PasteImage(image, step) == AlphaComposite(image, ResolveScalar(step.image))

-----------------------------------------------------------------------------
(* CardFace.generate *)

Top == stack[Len(stack)]
CurrentIndex == Top.ordered_steps[Top.pos]
CurrentStep == faces[Top.face].cumulative_steps[CurrentIndex]

\* the loop "for step in ordered_steps" is at a step of the given type
AtStep(type) ==
    /\ stack # <<>>
    /\ outcome.kind # "unending"
    /\ Top.pos <= Len(Top.ordered_steps)
    /\ CurrentStep.type = type

\* the handler returned: the loop goes on to the next step
Advance ==
    stack' = [stack EXCEPT ![Len(stack)] =
                 [@ EXCEPT !.pos = @ + 1, !.executed = Append(@, CurrentIndex)]]

\* the handler raised: generate() has no except clause around the handler
\* call, so the exception leaves generate() and reaches its caller, with
\* working_image and cache as they are
Propagate(exc) ==
    /\ stack' = <<>>
    /\ outcome' = Raised("generate", Top.face, exc, working_image[Top.face],
                         Append(Top.executed, CurrentIndex))

\* generate(), from its call to the start of the loop over the steps
Generate(f) ==
    /\ stack = <<>>
    /\ f \in DOMAIN faces
    /\ calls < MaxGenerations
    /\ calls' = calls + 1
    /\ UNCHANGED <<random_state, resolutions, target_cls>>
    /\ IF faces[f].size = NoSize
       THEN /\ outcome' = Raised("generate", f, "ValueError", working_image[f], <<>>)
            /\ UNCHANGED <<faces, cache, working_image, global_cache, stack>>
       ELSE /\ cache' = [cache EXCEPT ![f] = EmptyCache]
            /\ working_image' = [working_image EXCEPT ![f] = ImageNew(faces[f].size)]
            /\ stack' = <<[face |-> f,
                           ordered_steps |-> OrderedSteps(faces[f].cumulative_steps),
                           pos |-> 1,
                           executed |-> <<>>,
                           awaiting |-> FALSE,
                           before |-> outcome]>>
            /\ outcome' = Outcome("generate", f, "running", "none", NoImage, NoImage, <<>>)
            /\ UNCHANGED <<faces, global_cache>>

\* the handler neither returns nor raises: generate() stays in this step
Unended ==
    /\ outcome' = Outcome("generate", Top.face, "unending", "none", NoImage,
                          working_image[Top.face], Append(Top.executed, CurrentIndex))
    /\ UNCHANGED stack

\* the steps with the entries of step index as the handler left them: the
\* step dict is the same object in cumulative_steps and, for a step of the
\* face's own, in steps
StepsAfter(face, index, entries) ==
    LET own == index - (Len(face.cumulative_steps) - Len(face.steps))
    IN [face EXCEPT !.cumulative_steps[index].entries = entries,
                    !.steps = IF own >= 1 THEN [@ EXCEPT ![own].entries = entries]
                              ELSE @]

\* one turn of the loop, on a write_to_cache step
StepWriteToCache ==
    /\ AtStep("write_to_cache")
    /\ \E done \in {WriteToCache(CurrentStep, cache[Top.face], global_cache,
                                 random_state)} :
          /\ cache' = [cache EXCEPT ![Top.face] = done.cache]
          /\ global_cache' = done.global_cache
          /\ random_state' = done.random
          /\ faces' = [faces EXCEPT ![Top.face] = StepsAfter(@, CurrentIndex, done.entries)]
          /\ IF done.exc = "none" THEN Advance /\ UNCHANGED outcome
             ELSE IF done.exc = Unending THEN Unended
             ELSE Propagate(done.exc)
    /\ UNCHANGED <<working_image, calls, resolutions, target_cls>>

\* one turn of the loop, on a paste_image step
StepPasteImage ==
    /\ AtStep("paste_image")
    /\ CurrentStep.deferred = ""
    /\ working_image' = [working_image EXCEPT ![Top.face] = PasteImage(@, CurrentStep)]
    /\ Advance
    /\ UNCHANGED <<faces, cache, global_cache, outcome, calls, random_state, resolutions, target_cls>>

\* one turn of the loop, on a stop step: __step_stop raises StopIteration
StepStop ==
    /\ AtStep("stop")
    /\ Propagate("StopIteration")
    /\ UNCHANGED <<faces, cache, working_image, global_cache, calls, random_state,
                   resolutions, target_cls>>

\* one turn of the loop, on a cancel step: __step_cancel raises
\* NotImplementedError
StepCancel ==
    /\ AtStep("cancel")
    /\ Propagate("NotImplementedError")
    /\ UNCHANGED <<faces, cache, working_image, global_cache, calls, random_state,
                   resolutions, target_cls>>

\* generate(), after the last step: detach the working image and return it
GenerateReturn ==
    /\ stack # <<>>
    /\ Top.pos > Len(Top.ordered_steps)
    /\ outcome' = Outcome("generate", Top.face, "returned", "none",
                          working_image[Top.face], working_image[Top.face], Top.executed)
    /\ working_image' = [working_image EXCEPT ![Top.face] = NoImage]
    /\ stack' = SubSeq(stack, 1, Len(stack) - 1)
    /\ faces' = [faces EXCEPT ![Top.face].parent = NoParent]
    /\ UNCHANGED <<cache, global_cache, calls, random_state, resolutions, target_cls>>

\* card_face.templates_pool: the faces by their labels, one face to a label
TemplatesPool ==
    [label \in {faces[f].label : f \in DOMAIN faces} |->
        CHOOSE f \in DOMAIN faces : faces[f].label = label]

\* one turn of the loop, on a paste_image step whose image is an
\* image_from_template value, up to the call it makes:
\* card_face.templates_pool[label].generate(parent=card_face). The nested
\* generate() starts as generate() does. Calls nested MaxNesting deep stand
\* for the depth at which Python raises RecursionError
StepPasteTemplate ==
    /\ AtStep("paste_image")
    /\ CurrentStep.deferred = "image_from_template"
    /\ ~Top.awaiting
    /\ UNCHANGED <<global_cache, calls, random_state, resolutions, target_cls>>
    /\ IF CurrentStep.image \notin DOMAIN TemplatesPool
       THEN Propagate("KeyError") /\ UNCHANGED <<faces, cache, working_image>>
       ELSE IF Len(stack) >= MaxNesting
       THEN Propagate("RecursionError") /\ UNCHANGED <<faces, cache, working_image>>
       ELSE LET f == TemplatesPool[CurrentStep.image]
            IN IF faces[f].size = NoSize
               THEN /\ Propagate("ValueError")
                    /\ UNCHANGED <<faces, cache, working_image>>
               ELSE /\ faces' = [faces EXCEPT ![f].parent = Top.face]
                    /\ cache' = [cache EXCEPT ![f] = EmptyCache]
                    /\ working_image' =
                           [working_image EXCEPT ![f] = ImageNew(faces[f].size)]
                    /\ stack' = Append([stack EXCEPT ![Len(stack)].awaiting = TRUE],
                                       [face |-> f,
                                        ordered_steps |->
                                            OrderedSteps(faces[f].cumulative_steps),
                                        pos |-> 1,
                                        executed |-> <<>>,
                                        awaiting |-> FALSE,
                                        before |-> outcome])
                    /\ outcome' = Outcome("generate", f, "running", "none",
                                          NoImage, NoImage, <<>>)

\* the same turn of the loop, from the return of the nested generate(): its
\* image is pasted
StepPasteTemplateReturn ==
    /\ AtStep("paste_image")
    /\ Top.awaiting
    /\ outcome.kind = "returned"
    /\ working_image' = [working_image EXCEPT ![Top.face] =
                             AlphaComposite(@, outcome.result)]
    /\ stack' = [stack EXCEPT ![Len(stack)] =
                    [@ EXCEPT !.pos = @ + 1, !.executed = Append(@, CurrentIndex),
                              !.awaiting = FALSE]]
    /\ outcome' = Outcome("generate", Top.face, "running", "none", NoImage, NoImage, <<>>)
    /\ UNCHANGED <<faces, cache, global_cache, calls, random_state, resolutions,
                   target_cls>>

\* card_face.resolve_deferred_value(value) called on face f from outside the
\* step handlers, between generations. A call that does not end is the last
LastResolution == resolutions[Len(resolutions)]

Resolution(f, value, done) ==
    [face |-> f, value |-> value, cache |-> cache[f], random |-> random_state,
     exc |-> done.exc, result |-> done.value, arg |-> done.store.arg]

ResolveValue(f, value) ==
    /\ stack = <<>>
    /\ f \in DOMAIN faces
    /\ resolutions # <<>> => LastResolution.exc # Unending
    /\ \E done \in {ResolveDeferredValue(value, ArgLoc,
                                         Store(value, cache[f], random_state), {})} :
          /\ cache' = [cache EXCEPT ![f] = done.store.cache]
          /\ random_state' = done.store.random
          /\ resolutions' = Append(resolutions, Resolution(f, value, done))
    /\ UNCHANGED <<faces, working_image, global_cache, stack, outcome, calls,
                   target_cls>>

-----------------------------------------------------------------------------
(* Extensions: PresetSteps.extend and PresetValues.extend *)

\* the keys of the dict an extension registers, in the order of the dict
PresetStepsHandlers ==
    <<"paste_image", "write_to_cache", "save", "write_text", "stop", "cancel">>

PresetValuesResolvers ==
    <<"self", "label", "config", "cached", "calc", "arith", "seeded", "mapped",
      "card_dim", "working_image", "parent", "image_from_file", "blank_image",
      "image_from_template", "font", "text_length", "text_bbox">>

RECURSIVE Register(_, _, _)

\* the loop registering each key whether the registry has it or not
RegisterUnchecked(registry, keys, owner) ==
    IF keys = <<>> THEN [exc |-> "none", registry |-> registry]
    ELSE Register(DictSet(registry, Head(keys), owner), Tail(keys), owner)

\* the loop of extend over the items of the extension's dict: a key the
\* registry has raises ValueError, with the keys before it registered; owner
\* stands for the functions of the extension
Register(registry, keys, owner) ==
    IF keys = <<>> THEN [exc |-> "none", registry |-> registry]
    ELSE IF Head(keys) \in DOMAIN registry
    THEN [exc |-> "ValueError", registry |-> registry]
    ELSE Register(DictSet(registry, Head(keys), owner), Tail(keys), owner)

\* extend(target_cls) of the extension named: the registry is replaced by a
\* copy of itself, to which the loop adds
Extend(extension) ==
    /\ outcome.kind # "raised"
    /\ LET attr == IF extension = "PresetSteps" THEN "STEP_HANDLERS"
                   ELSE "DEFERRED_VALUE_RESOLVERS"
           keys == IF extension = "PresetSteps" THEN PresetStepsHandlers
                   ELSE PresetValuesResolvers
           done == Register(target_cls[attr], keys, extension)
       IN /\ target_cls' = [target_cls EXCEPT ![attr] = done.registry,
                                              !.applied = Append(@, extension)]
          /\ outcome' = IF done.exc = "none"
                        THEN Outcome("extend", 0, "returned", "none", NoImage, NoImage, <<>>)
                        ELSE Raised("extend", 0, done.exc, NoImage, <<>>)
    /\ UNCHANGED <<faces, cache, working_image, global_cache, stack, calls,
                   random_state, resolutions>>

-----------------------------------------------------------------------------
(* Specifications *)

Init ==
    /\ faces = <<>>
    /\ cache = <<>>
    /\ working_image = <<>>
    /\ global_cache = EmptyCache
    /\ stack = <<>>
    /\ outcome = Outcome("none", 0, "none", "none", NoImage, NoImage, <<>>)
    /\ calls = 0
    /\ random_state = Unseeded
    /\ resolutions = <<>>
    /\ target_cls = [STEP_HANDLERS |-> EmptyCache,
                     DEFERRED_VALUE_RESOLVERS |-> EmptyCache,
                     applied |-> <<>>]

StepLists(pool, n) == UNION {[1..k -> pool] : k \in 0..n}

Sizes == {NoSize, <<1, 1>>, <<2, 2>>}
Priorities == {NoPriority, IntPriority(1), IntPriority(2), StrPriority(1)}

\* Spec: one card whose steps write to the caches, paste, stop or cancel,
\* generated up to MaxGenerations times
CachePool ==
    {WriteToCacheStep(NoPriority, k, v, m, g) :
        k \in Keys, v \in Values, m \in Modes, g \in BOOLEAN}
    \cup {PasteImageStep(NoPriority, i) : i \in Images}
    \cup {StopStep(NoPriority), CancelStep(NoPriority)}

NewCard ==
    /\ faces = <<>>
    /\ \E size \in {NoSize, <<1, 1>>}, steps \in StepLists(CachePool, MaxSteps) :
           Construct("card", <<>>, size, steps)

Next ==
    \/ NewCard
    \/ \E f \in DOMAIN faces : Generate(f)
    \/ StepWriteToCache
    \/ StepPasteImage
    \/ StepStop
    \/ StepCancel
    \/ GenerateReturn

Spec == Init /\ [][Next]_vars

\* SpecSort: one card whose steps carry priorities of every kind
SortPool ==
    {PasteImageStep(p, "a") : p \in Priorities} \cup {StopStep(p) : p \in Priorities}

NewSortCard ==
    /\ faces = <<>>
    /\ \E steps \in StepLists(SortPool, MaxSortSteps) :
           Construct("card", <<>>, <<1, 1>>, steps)

NextSort ==
    \/ NewSortCard
    \/ \E f \in DOMAIN faces : Generate(f)
    \/ StepPasteImage
    \/ StepStop
    \/ GenerateReturn

SpecSort == Init /\ [][NextSort]_vars

\* SpecInit: up to MaxFaces faces, each built on faces built before it
Labels == {"A", "B"}
InitPool == {PasteImageStep(NoPriority, i) : i \in Images}

NewFace ==
    /\ Len(faces) < MaxFaces
    /\ \E label \in Labels, size \in Sizes,
          templates \in StepLists(DOMAIN faces, MaxTemplates),
          steps \in StepLists(InitPool, 1) :
           Construct(label, templates, size, steps)

NextInit == NewFace

SpecInit == Init /\ [][NextInit]_vars

\* SpecTemplates: up to MaxTemplateFaces faces of one size with one step
\* each, built on faces built before them, to any depth
TemplateLabels == {"A", "B", "C"}

NewTemplateFace ==
    /\ Len(faces) < MaxTemplateFaces
    /\ \E label \in TemplateLabels,
          templates \in StepLists(DOMAIN faces, MaxTemplates),
          steps \in [1..1 -> InitPool] :
           Construct(label, templates, <<1, 1>>, steps)

NextTemplates == NewTemplateFace

SpecTemplates == Init /\ [][NextTemplates]_vars

\* SpecResolve: one card whose steps write values and deferred expressions
\* to its cache, lazily; after a generation, values are resolved on it
LazyValues ==
    {Num(1), Cached(Str("x")), Cached(Str("y")),
     Dict(<<Entry("a", Cached(Str("y")))>>), List(<<Cached(Str("y"))>>)}

ResolvePool ==
    {WriteToCacheStep(NoPriority, k, v, "add_or_update", FALSE) :
        k \in Keys, v \in LazyValues}

PlainValues ==
    {Num(1),
     Tuple(<<Num(1), List(<<Num(2)>>)>>),
     Dict(<<Entry("a", Num(1)), Entry("b", List(<<Str("x")>>))>>),
     Dict(<<Entry("a", Tuple(<<Num(2)>>)), Entry("h", Handle("file"))>>)}

DeferredValues ==
    {Cached(Str("x")),
     Cached(Cached(Str("y"))),
     CachedOr(Str("y"), Cached(Str("x"))),
     CachedOr(Str("z"), List(<<Cached(Str("x"))>>)),
     Tuple(<<Cached(Str("x")), Num(2)>>),
     Dict(<<Entry("a", Cached(Str("x")))>>),
     Dict(<<Entry("a", Cached(Str("x"))), Entry("h", Handle("file"))>>),
     List(<<Dict(<<Entry("a", CachedOr(Str("x"), Num(2))),
                   Entry("h", Handle("file"))>>)>>),
     Mapped(Dict(<<Entry("default", Num(2))>>), Str("key"),
            List(<<Str("x"), Str("y")>>), Str("cached")),
     Mapped(Dict(<<Entry("b", Cached(Str("x")))>>), Str("a"), Tuple(<<Num(1)>>), None),
     Seeded(Num(1), Num(1), Bool(FALSE), Num(1)),
     Dict(<<Entry("deferred", Str("no such type"))>>)}

NewResolveCard ==
    /\ faces = <<>>
    /\ \E steps \in StepLists(ResolvePool, MaxSteps) :
           Construct("card", <<>>, <<1, 1>>, steps)

NextResolve ==
    \/ NewResolveCard
    \/ resolutions = <<>> /\ \E f \in DOMAIN faces : Generate(f)
    \/ StepWriteToCache
    \/ GenerateReturn
    \/ /\ Len(resolutions) < MaxResolutions
       /\ \E f \in DOMAIN faces, value \in PlainValues \cup DeferredValues :
              ResolveValue(f, value)
    \/ /\ Len(resolutions) < MaxResolutions
       /\ resolutions # <<>>
       /\ LastResolution.exc = "none"
       /\ ResolveValue(LastResolution.face, LastResolution.result)

SpecResolve == Init /\ [][NextResolve]_vars

\* SpecRandom: faces without steps, on which seeded expressions are resolved
SeededValues ==
    {Seeded(Num(seed), Num(n), Bool(is_int), Num(IF is_int THEN 2 ELSE 1)) :
        seed \in {1, 2}, n \in 1..MaxDraws, is_int \in BOOLEAN}

NewRandomFace ==
    \E label \in Labels :
        /\ \A f \in DOMAIN faces : faces[f].label # label
        /\ Construct(label, <<>>, <<1, 1>>, <<>>)

NextRandom ==
    \/ NewRandomFace
    \/ /\ Len(resolutions) < MaxSeededResolutions
       /\ \E f \in DOMAIN faces, value \in SeededValues : ResolveValue(f, value)

SpecRandom == Init /\ [][NextRandom]_vars

\* SpecExtend: a class whose base declares some handlers and resolvers, to
\* which the two extensions are applied, in any order, up to MaxExtensions
\* times
BaseStepKeys == {"paste_image", "cancel", "draw"}
BaseResolverKeys == {"self", "text_bbox", "custom"}

InitExtend ==
    /\ faces = <<>>
    /\ cache = <<>>
    /\ working_image = <<>>
    /\ global_cache = EmptyCache
    /\ stack = <<>>
    /\ outcome = Outcome("none", 0, "none", "none", NoImage, NoImage, <<>>)
    /\ calls = 0
    /\ random_state = Unseeded
    /\ resolutions = <<>>
    /\ \E handlers \in SUBSET BaseStepKeys, resolvers \in SUBSET BaseResolverKeys :
           target_cls = [STEP_HANDLERS |-> [k \in handlers |-> "CardFace"],
                         DEFERRED_VALUE_RESOLVERS |-> [k \in resolvers |-> "CardFace"],
                         applied |-> <<>>]

NextExtend ==
    /\ Len(target_cls.applied) < MaxExtensions
    /\ \E extension \in {"PresetSteps", "PresetValues"} : Extend(extension)

SpecExtend == InitExtend /\ [][NextExtend]_vars

\* SpecDoStep: one card whose steps carry a "do_step" key or not
DoStepPool ==
    {DoStep(step, flag) :
        step \in {PasteImageStep(NoPriority, "a"), PasteImageStep(NoPriority, "b"),
                  WriteToCacheStep(NoPriority, "x", Num(1), "add_or_update", FALSE)},
        flag \in {"absent", "True", "False"}}

NewDoStepCard ==
    /\ faces = <<>>
    /\ \E steps \in StepLists(DoStepPool, MaxDoSteps) :
           Construct("card", <<>>, <<1, 1>>, steps)

NextDoStep ==
    \/ NewDoStepCard
    \/ \E f \in DOMAIN faces : Generate(f)
    \/ StepWriteToCache
    \/ StepPasteImage
    \/ GenerateReturn

SpecDoStep == Init /\ [][NextDoStep]_vars

\* SpecEndToEnd: a template whose step writes x, a face that references it
\* and whose step writes y, a calculation on the cached x; generations, and
\* the cached y resolved on the face
EndToEndSizes == {<<100, 100>>, <<1, 1>>}
EndToEndNumbers == {10, 5}

NewTemplate ==
    /\ faces = <<>>
    /\ \E size \in EndToEndSizes, x \in EndToEndNumbers :
           Construct("T", <<>>, size,
                     <<WriteToCacheStep(NoPriority, "x", Num(x), "add", FALSE)>>)

NewReferencingFace ==
    /\ Len(faces) = 1
    /\ \E op \in {"+", "-", "*"}, operand \in EndToEndNumbers, is_lazy \in BOOLEAN :
           Construct("F", <<1>>, NoSize,
                     <<Step("write_to_cache", NoPriority,
                            <<<<"y", Calc(op, <<Cached(Str("x")), Num(operand)>>)>>>>,
                            "add", is_lazy, FALSE, "a")>>)

NextEndToEnd ==
    \/ NewTemplate
    \/ NewReferencingFace
    \/ \E f \in DOMAIN faces : Generate(f)
    \/ StepWriteToCache
    \/ GenerateReturn
    \/ /\ Len(resolutions) < MaxEndToEndResolutions
       /\ \E f \in DOMAIN faces : ResolveValue(f, Cached(Str("y")))

SpecEndToEnd == Init /\ [][NextEndToEnd]_vars

\* SpecNested: faces of distinct labels whose steps paste images, write to
\* the cache and paste the images of faces by their labels
NestedLabels == <<"A", "B">>
NestedPool ==
    {PasteImageStep(NoPriority, "a"),
     WriteToCacheStep(NoPriority, "x", Num(1), "add_or_update", FALSE)}
        \cup {PasteTemplateStep(NoPriority, label) : label \in {"A", "B", "C"}}

NewNestedFace ==
    /\ Len(faces) < Len(NestedLabels)
    /\ stack = <<>>
    /\ calls = 0
    /\ \E size \in {NoSize, <<1, 1>>}, steps \in StepLists(NestedPool, MaxSteps) :
           Construct(NestedLabels[Len(faces) + 1], <<>>, size, steps)

NextNested ==
    \/ NewNestedFace
    \/ \E f \in DOMAIN faces : Generate(f)
    \/ StepWriteToCache
    \/ StepPasteImage
    \/ StepPasteTemplate
    \/ StepPasteTemplateReturn
    \/ GenerateReturn

SpecNested == Init /\ [][NextNested]_vars

-----------------------------------------------------------------------------
(* Properties *)

\* a generate() call has ended, by return or by an exception
Ended == stack = <<>> /\ outcome.op = "generate"

\* the steps dispatched to a handler in the generation under way or, when
\* none is under way, in the last one
Exec == IF stack # <<>> THEN Top.executed ELSE outcome.executed
GenFace == IF stack # <<>> THEN Top.face ELSE outcome.face
Generating == stack # <<>> \/ (outcome.op = "generate" /\ faces[outcome.face].size # NoSize)
StepsOf(f) == faces[f].cumulative_steps
Prio(f, i) == StepsOf(f)[i].priority

\* step i comes before step j by the sort key (priority, original index)
KeyBefore(f, i, j) ==
    \/ Prio(f, i) = Prio(f, j) /\ i < j
    \/ Prio(f, i) # Prio(f, j) /\ Prio(f, i).val < Prio(f, j).val

\* every two priorities are equal or can be ordered by <
MutuallyComparable(f) ==
    \A i, j \in DOMAIN StepsOf(f) :
        Prio(f, i) = Prio(f, j) \/ Orderable(Prio(f, i), Prio(f, j))

\* C1: when the handler of a step raises the Stop signal, generate() does
\* not raise, returns the canvas produced up to the signal, and no step after
\* that one is executed.
C1_StopReturnsCanvas ==
    Ended =>
        \A a \in DOMAIN outcome.executed :
            StepsOf(outcome.face)[outcome.executed[a]].type = "stop"
            => /\ outcome.kind = "returned"
               /\ outcome.result = outcome.canvas
               /\ outcome.result # NoImage
               /\ a = Len(outcome.executed)

\* C2: when a step handler raises the Cancel signal, generate() does not
\* raise and returns None, and what the steps executed before it wrote to the
\* global cache is still there.
C2_CancelReturnsNone ==
    (Ended /\ \E a \in DOMAIN outcome.executed :
                  StepsOf(outcome.face)[outcome.executed[a]].type = "cancel")
    => /\ outcome.kind = "returned"
       /\ outcome.result = NoImage
       /\ \A a \in DOMAIN outcome.executed :
              LET step == StepsOf(outcome.face)[outcome.executed[a]]
              IN (step.type = "write_to_cache" /\ step.is_global
                      /\ step.mode \in {"add", "update", "add_or_update"})
                 => \A e \in DOMAIN step.entries :
                        step.entries[e][1] \in DOMAIN global_cache

\* C3: generate() on a face without a size returns None as a success, raises
\* nothing and executes no step.
C3_NoSizeReturnsNone ==
    (Ended /\ faces[outcome.face].size = NoSize) =>
        /\ outcome.kind = "returned"
        /\ outcome.result = NoImage
        /\ outcome.executed = <<>>

\* the size of the last-listed template of a face that has a size
LastTemplateSize(templates) ==
    LET sized == {i \in DOMAIN templates : faces[templates[i]].size # NoSize}
    IN IF sized = {} THEN NoSize
       ELSE faces[templates[CHOOSE i \in sized : \A j \in sized : j <= i]].size

\* C4: the size of a face is its explicit size if one is given, otherwise
\* the size of the last-listed template that has a size, otherwise unset.
C4_SizeFromLastTemplate ==
    \A f \in DOMAIN faces :
        faces[f].size = IF faces[f].size_arg # NoSize THEN faces[f].size_arg
                        ELSE LastTemplateSize(faces[f].templates)

\* C5: when all step priorities are mutually comparable, the steps are
\* executed in ascending (priority, original index) order: the a-th step
\* executed is the one with exactly a-1 steps before it by that key, and a
\* generation that returns has executed them all.
C5_AscendingPriority ==
    (Generating /\ MutuallyComparable(GenFace)) =>
        /\ \A a \in DOMAIN Exec :
               Cardinality({j \in DOMAIN StepsOf(GenFace) :
                               KeyBefore(GenFace, j, Exec[a])}) = a - 1
        /\ (Ended /\ outcome.kind = "returned") => Len(Exec) = Len(StepsOf(GenFace))

C5_Witness ==
    /\ Ended
    /\ outcome.kind = "returned"
    /\ MutuallyComparable(outcome.face)
    /\ \E a \in DOMAIN outcome.executed :
           /\ a + 1 \in DOMAIN outcome.executed
           /\ outcome.executed[a] > outcome.executed[a + 1]
    /\ \E i, j \in DOMAIN StepsOf(outcome.face) :
           i < j /\ Prio(outcome.face, i) = Prio(outcome.face, j)

\* some two steps have priorities that < cannot order
SomePairIncomparable(f) ==
    \E i, j \in DOMAIN StepsOf(f) : i # j /\ ~Orderable(Prio(f, i), Prio(f, j))

\* C6: when some pair of step priorities is not comparable, priority is
\* ignored for every step of the run: the steps are executed in declaration
\* order, the a-th step executed being the a-th step declared, and a
\* generation that returns has executed them all.
C6_FallbackToDeclarationOrder ==
    (Generating /\ SomePairIncomparable(GenFace)) =>
        /\ \A a \in DOMAIN Exec : Exec[a] = a
        /\ (Ended /\ outcome.kind = "returned") => Len(Exec) = Len(StepsOf(GenFace))

\* a run that returned although two steps that < can order were declared in
\* descending priority, before a step whose priority cannot be compared
C6_Witness ==
    /\ Ended
    /\ outcome.kind = "returned"
    /\ \E i, j, k \in DOMAIN StepsOf(outcome.face) :
           /\ i < j /\ j < k
           /\ Orderable(Prio(outcome.face, i), Prio(outcome.face, j))
           /\ Prio(outcome.face, j).val < Prio(outcome.face, i).val
           /\ ~Orderable(Prio(outcome.face, j), Prio(outcome.face, k))
    /\ Len(outcome.executed) = Len(StepsOf(outcome.face))

\* C7: steps with priorities [None, 2, None, 1] are executed in the order
\* [3, 1, 0, 2] (counting from 0): the prioritised steps by priority, then
\* the others in declaration order. Steps are counted from 1 here.
C7_UnsetPriorityLast ==
    (/\ Ended
     /\ outcome.kind = "returned"
     /\ [i \in DOMAIN StepsOf(outcome.face) |-> Prio(outcome.face, i)]
            = <<NoPriority, IntPriority(2), NoPriority, IntPriority(1)>>)
    => outcome.executed = <<4, 2, 1, 3>>

\* C8: after generate() has returned by normal completion, by Stop or by
\* Cancel, and whenever no generate() is under way, the cache of every face
\* is empty and its working canvas is None.
C8_CleanOutsideGenerate ==
    (/\ stack = <<>>
     /\ ~(outcome.kind = "raised"
            /\ outcome.exc \notin {"StopIteration", "NotImplementedError"}))
    => \A f \in DOMAIN faces :
           cache[f] = EmptyCache /\ working_image[f] = NoImage

\* C9: when generate() is about to run its first step, the local cache of
\* the face holds exactly the entries of the global cache, so that a cached
\* lookup finds every global key.
C9_CacheSeededFromGlobal ==
    (stack # <<>> /\ Top.pos = 1) =>
        /\ cache[Top.face] = global_cache
        /\ \A k \in DOMAIN global_cache :
               ResolveCached(k, cache[Top.face]).exc = "none"

EntryKey == CurrentStep.entries[1][1]
EntryValue == CurrentStep.entries[1][2]

\* dict c2 has at key k what dict c1 has: the same value, or no entry
SameAt(k, c1, c2) ==
    /\ k \in DOMAIN c1 <=> k \in DOMAIN c2
    /\ k \in DOMAIN c1 => c1[k] = c2[k]

\* the handler of the step the loop is at raises exc, which ends generate()
StepRaises(exc) == stack' = <<>> /\ outcome'.kind = "raised" /\ outcome'.exc = exc

\* the handler of the step the loop is at returns, and the loop goes on
StepReturns == stack' # <<>> /\ Top'.pos = Top.pos + 1 /\ outcome' = outcome

\* C11: a write_to_cache step in mode "add" on a key that is in the local
\* cache (or, with is_global, in the global cache) raises, and so does one in
\* mode "update" on a key that is not in the local cache (or, with is_global,
\* not in the global cache); in both cases either cache has at that key what
\* it had before the step.
C11_AddUpdateRaise ==
    [][AtStep("write_to_cache") =>
          LET f == Top.face
              in_cache == EntryKey \in DOMAIN cache[f]
              in_global == EntryKey \in DOMAIN global_cache
          IN /\ (/\ CurrentStep.mode = "add"
                  /\ (in_cache \/ (CurrentStep.is_global /\ in_global)))
                 => /\ StepRaises("ValueError")
                    /\ SameAt(EntryKey, cache[f], cache'[f])
                    /\ SameAt(EntryKey, global_cache, global_cache')
             /\ (/\ CurrentStep.mode = "update"
                  /\ (~in_cache \/ (CurrentStep.is_global /\ ~in_global)))
                 => /\ StepRaises("KeyError")
                    /\ SameAt(EntryKey, cache[f], cache'[f])
                    /\ SameAt(EntryKey, global_cache, global_cache')
      ]_vars

\* a global "add" has raised on a key that only the global cache holds, with
\* another value than the step's
C11_Witness ==
    /\ Ended
    /\ outcome.kind = "raised"
    /\ outcome.exc = "ValueError"
    /\ outcome.executed # <<>>
    /\ LET step == StepsOf(outcome.face)[outcome.executed[Len(outcome.executed)]]
       IN /\ step.type = "write_to_cache"
          /\ step.mode = "add"
          /\ step.is_global
          /\ step.entries[1][1] \notin DOMAIN cache[outcome.face]
          /\ step.entries[1][1] \in DOMAIN global_cache
          /\ global_cache[step.entries[1][1]] # step.entries[1][2]

\* C12: a write_to_cache step in mode "add_or_update" returns whether its key
\* is present or not, and leaves the key mapped to its value (in the global
\* cache too when is_global); one in mode "add_or_skip" returns too, writes
\* its value when the key is absent from the local cache (and, with
\* is_global, from the global cache), and when the key is present (in the
\* local cache or, with is_global, in the global cache) leaves both caches
\* with what they had at that key.
C12_AddOrUpdateAddOrSkip ==
    [][AtStep("write_to_cache") =>
          LET f == Top.face
              in_cache == EntryKey \in DOMAIN cache[f]
              in_global == CurrentStep.is_global /\ EntryKey \in DOMAIN global_cache
              written == /\ EntryKey \in DOMAIN cache'[f]
                         /\ cache'[f][EntryKey] = EntryValue
                         /\ CurrentStep.is_global =>
                                /\ EntryKey \in DOMAIN global_cache'
                                /\ global_cache'[EntryKey] = EntryValue
          IN /\ CurrentStep.mode = "add_or_update" => StepReturns /\ written
             /\ CurrentStep.mode = "add_or_skip" =>
                    /\ StepReturns
                    /\ (~in_cache /\ ~in_global) => written
                    /\ (in_cache \/ in_global) =>
                           /\ SameAt(EntryKey, cache[f], cache'[f])
                           /\ SameAt(EntryKey, global_cache, global_cache')
      ]_vars

\* the first step of a generation was a global add_or_skip on a key that
\* only the global cache held, with another value than the step's: the
\* handler has returned and neither cache was written
C12_Witness ==
    /\ stack # <<>>
    /\ Len(Top.executed) = 1
    /\ LET step == StepsOf(Top.face)[Top.executed[1]]
       IN /\ step.type = "write_to_cache"
          /\ step.mode = "add_or_skip"
          /\ step.is_global
          /\ step.entries[1][1] \notin DOMAIN cache[Top.face]
          /\ step.entries[1][1] \in DOMAIN global_cache
          /\ global_cache[step.entries[1][1]] # step.entries[1][2]

\* a dict with a "deferred" key: a deferred expression
IsDeferred(value) == value.t = "dict" /\ Has(value, "deferred")

\* value holds no deferred expression at any depth
RECURSIVE NoDeferred(_)
NoDeferred(value) ==
    /\ ~IsDeferred(value)
    /\ \A i \in DOMAIN value.c : NoDeferred(value.c[i].v)

\* C13: resolve_deferred_value on a value that holds no deferred expression
\* at any depth returns a value equal to it, tuples as tuples and lists as
\* lists; and resolve_deferred_value on a value it returned returns that
\* value.
C13_ResolvePlainIsIdentity ==
    \A i \in DOMAIN resolutions :
        LET call == resolutions[i]
        IN /\ NoDeferred(call.value) =>
                  call.exc = "none" /\ call.result = call.value
           /\ (/\ i > 1
               /\ resolutions[i - 1].exc = "none"
               /\ call.value = resolutions[i - 1].result
               /\ call.face = resolutions[i - 1].face)
              => call.exc = "none" /\ call.result = call.value

\* a container that resolving a value with deferred expressions returned has
\* been resolved again
C13_Witness ==
    /\ Len(resolutions) = 2
    /\ ~NoDeferred(resolutions[1].value)
    /\ resolutions[1].exc = "none"
    /\ resolutions[1].result.t \in {"list", "tuple", "dict"}
    /\ resolutions[2].value = resolutions[1].result
    /\ resolutions[2].face = resolutions[1].face
    /\ resolutions[2].exc = "none"

\* C14: resolve_deferred_value leaves the value it was passed as it was, also
\* a dict that holds an object deepcopy fails on.
C14_ArgumentUnchanged ==
    \A i \in DOMAIN resolutions : resolutions[i].arg = resolutions[i].value

\* C15: every call of resolve_deferred_value ends, by returning or by
\* raising: a chain of resolutions that goes on, such as a cache entry whose
\* lazy value is the cached expression for its own key, ends in an error.
C15_ResolveEnds ==
    \A i \in DOMAIN resolutions : resolutions[i].exc # Unending

\* C16: the value resolve_deferred_value returns holds no deferred
\* expression at any depth, also when a resolver produced one: a lazily
\* cached expression, the default of a cached expression, the dicts mapped
\* makes.
C16_ResultFullyResolved ==
    \A i \in DOMAIN resolutions :
        resolutions[i].exc = "none" => NoDeferred(resolutions[i].result)

\* a mapped expression that makes cached expressions has returned a list of
\* what they resolve to
C16_Witness ==
    \E i \in DOMAIN resolutions :
        /\ resolutions[i].exc = "none"
        /\ DeferredValueType(resolutions[i].value) = "mapped"
        /\ Get(resolutions[i].value, "map_deferred_type").t = "str"
        /\ resolutions[i].result.c # <<>>
        /\ resolutions[i].cache # EmptyCache

\* C17: a seeded expression resolves to the n-th number of the sequence its
\* seed fixes (times mult, rounded when is_int), whatever was resolved before
\* it and on whichever face: two resolutions of expressions with the same
\* seed, n, is_int and mult return the same value.
C17_SeededDeterministic ==
    \A i \in DOMAIN resolutions :
        LET call == resolutions[i]
        IN /\ call.exc = "none"
           /\ call.result = Random(Get(call.value, "seed"), Get(call.value, "n").n,
                                   Get(call.value, "mult"), Get(call.value, "is_int"))
           /\ \A j \in DOMAIN resolutions :
                  resolutions[j].value = call.value
                      => resolutions[j].result = call.result

\* the same expression has been resolved on two faces, with an expression of
\* another seed resolved in between
C17_Witness ==
    /\ Len(resolutions) = 3
    /\ resolutions[1].value = resolutions[3].value
    /\ resolutions[1].face # resolutions[3].face
    /\ Get(resolutions[1].value, "n").n > 1
    /\ Get(resolutions[2].value, "seed") # Get(resolutions[1].value, "seed")
    /\ resolutions[3].exc = "none"

\* the extension applied in this step, and the registry it registers in
Applied == target_cls'.applied[Len(target_cls'.applied)]
RegistryOf(extension) ==
    IF extension = "PresetSteps" THEN "STEP_HANDLERS" ELSE "DEFERRED_VALUE_RESOLVERS"
KeysOf(extension) ==
    IF extension = "PresetSteps" THEN PresetStepsHandlers ELSE PresetValuesResolvers

\* C18: applying an extension one of whose keys the registry of the class
\* already has, from the base class or from an extension applied before,
\* raises in the application; an application that does not raise registers
\* every key of the extension; and in every application each key the
\* registries had keeps the handler or resolver it had.
C18_DuplicateKeysRejected ==
    [][target_cls' # target_cls =>
          LET before == target_cls[RegistryOf(Applied)]
              after == target_cls'[RegistryOf(Applied)]
              keys == {KeysOf(Applied)[i] : i \in DOMAIN KeysOf(Applied)}
          IN /\ keys \cap DOMAIN before # {} <=> outcome'.kind = "raised"
             /\ outcome'.kind = "returned" =>
                    \A k \in keys : k \in DOMAIN after /\ after[k] = Applied
             /\ \A attr \in {"STEP_HANDLERS", "DEFERRED_VALUE_RESOLVERS"} :
                    \A k \in DOMAIN target_cls[attr] :
                        /\ k \in DOMAIN target_cls'[attr]
                        /\ target_cls'[attr][k] = target_cls[attr][k]
      ]_vars

\* PresetSteps was applied and then applied again, to a class whose base
\* declares none of its keys: the second application raised and the handlers
\* are those the first registered
C18_Witness ==
    /\ target_cls.applied = <<"PresetSteps", "PresetValues", "PresetSteps">>
    /\ outcome.kind = "raised"
    /\ outcome.op = "extend"
    /\ "draw" \in DOMAIN target_cls.STEP_HANDLERS
    /\ \A i \in DOMAIN PresetStepsHandlers :
           target_cls.STEP_HANDLERS[PresetStepsHandlers[i]] = "PresetSteps"

\* the faces f references, directly or through its templates, and f itself
RECURSIVE Referenced(_)
Referenced(f) ==
    {f} \cup UNION {Referenced(faces[f].templates[i]) : i \in DOMAIN faces[f].templates}

\* no two of the faces carry the same label
DistinctLabels(face_set) ==
    \A f, g \in face_set : f # g => faces[f].label # faces[g].label

\* C19: two templates that both reference a common template, and that
\* reference no two templates of one label, can be the templates of one
\* face: its construction does not raise, and its cumulative_templates holds
\* every template referenced exactly once.
C19_DiamondTemplatesOnce ==
    \A a, b \in DOMAIN faces :
        (/\ a # b
         /\ (Referenced(a) \ {a}) \cap (Referenced(b) \ {b}) # {}
         /\ DistinctLabels(Referenced(a) \cup Referenced(b))) =>
            LET cumulative_templates == CumulativeTemplates(<<a, b>>)
            IN /\ ~DuplicateTemplateLabel(cumulative_templates)
               /\ \A t \in Referenced(a) \cup Referenced(b) :
                      Cardinality({i \in DOMAIN cumulative_templates :
                                      cumulative_templates[i] = t}) = 1

\* the own steps of each of the cumulative templates of f, in their order,
\* followed by the own steps of f
StepsInTemplateOrder(f) ==
    Concat([i \in DOMAIN faces[f].cumulative_templates |->
               faces[faces[f].cumulative_templates[i]].steps])
        \o faces[f].steps

\* C20: the cumulative_steps of a face are the own steps of each of its
\* cumulative_templates, in the order of cumulative_templates, followed by
\* its own steps.
C20_StepsInTemplateOrder ==
    \A f \in DOMAIN faces : faces[f].cumulative_steps = StepsInTemplateOrder(f)

\* C21: a face whose label is the label of one of the templates it references,
\* directly or through its templates (a cycle of labels), is not constructed.
C21_LabelCycleRejected ==
    \A f \in DOMAIN faces :
        \A i \in DOMAIN faces[f].cumulative_templates :
            faces[faces[f].cumulative_templates[i]].label # faces[f].label

\* C22: the turn of the loop on a step whose do_step is false leaves the
\* canvas and the caches as they are and goes on to the next step, without
\* the step counting as executed.
C22_DoStepFalseSkipped ==
    [][(/\ stack # <<>>
        /\ Top.pos <= Len(Top.ordered_steps)
        /\ CurrentStep.do_step = "False"
        /\ stack' # stack) =>
           /\ working_image' = working_image
           /\ cache' = cache
           /\ global_cache' = global_cache
           /\ stack' = [stack EXCEPT ![Len(stack)] = [@ EXCEPT !.pos = @ + 1]]
      ]_vars

\* the calculation the step of face 2 writes under y, with the x its
\* template writes: its operation and its two operands
EndToEndY == faces[2].steps[1].entries[1][2]
EndToEndExpected ==
    LET x == faces[1].steps[1].entries[1][2].n
        operand == Get(EndToEndY, "args").c[2].v.n
    IN CASE Get(EndToEndY, "op").s = "+" -> Num(x + operand)
         [] Get(EndToEndY, "op").s = "-" -> Num(x - operand)
         [] Get(EndToEndY, "op").s = "*" -> Num(x * operand)

\* C23: for a template T with a size, whose only step writes x, and a face F
\* that references T, has no size of its own and whose only step writes
\* y = calc(op, [cached x, operand]): a generation of F that has returned ran
\* the step of T and then the step of F and returned a canvas of the size of
\* T, and the cached y then resolves on F to the result of the calculation on
\* the x of T (15 for x = 10, op = +, operand = 5, and 100x100 for a T of
\* that size).
C23_EndToEnd ==
    /\ (Ended /\ outcome.face = 2) =>
           /\ outcome.kind = "returned"
           /\ outcome.result.size = faces[1].size_arg
           /\ Len(outcome.executed) = 2
           /\ faces[2].cumulative_steps[outcome.executed[1]] = faces[1].steps[1]
           /\ faces[2].cumulative_steps[outcome.executed[2]] = faces[2].steps[1]
    /\ \A r \in DOMAIN resolutions :
           (resolutions[r].face = 2 /\ "y" \in DOMAIN resolutions[r].cache) =>
               /\ resolutions[r].exc = "none"
               /\ resolutions[r].result = EndToEndExpected

C23_Witness ==
    /\ Len(faces) = 2
    /\ faces[1].size = <<100, 100>>
    /\ faces[1].steps[1].entries[1][2] = Num(10)
    /\ EndToEndY = Calc("+", <<Cached(Str("x")), Num(5)>>)
    /\ faces[2].steps[1].is_lazy
    /\ Ended
    /\ outcome.face = 2
    /\ outcome.result.size = <<100, 100>>
    /\ resolutions # <<>>
    /\ resolutions[1].face = 2
    /\ resolutions[1].result = Num(15)

\* the faces with a generate() call in progress that is not the innermost:
\* each is inside a step of its own, waiting for a nested generate()
Callers == {stack[i].face : i \in 1..(Len(stack) - 1)}

\* C24: a generation nested in a step of face F runs on a face whose parent
\* is F, from its start to its end, and that face has no parent once the
\* nested generate() has returned; and nothing from the call of the nested
\* generate() to its return changes the cache or the working image of F.
C24_NestedGenerationApart ==
    [][/\ \A i \in 2..Len(stack') :
              faces'[stack'[i].face].parent = stack'[i - 1].face
       /\ (Len(stack') < Len(stack) /\ outcome'.kind = "returned") =>
              faces'[outcome'.face].parent = NoParent
       /\ \A f \in Callers \cup (IF Len(stack') > Len(stack) /\ stack # <<>>
                               THEN {Top.face} ELSE {}) :
              /\ cache'[f] = cache[f]
              /\ working_image'[f] = working_image[f]
      ]_vars

\* C25: no face has two generate() calls in progress at once.
C25_NoReentrantGeneration ==
    \A i, j \in DOMAIN stack : i # j => stack[i].face # stack[j].face

-----------------------------------------------------------------------------
(* The arith resolver on argument lists: one face, and one resolution of an
   arith expression whose args are drawn from the lists of at most
   MaxArithLen tokens: numbers, None, operators and sub-lists. *)

MaxArithLen == 5

ArithTokens ==
    {Num(2), Num(3), None, Str("+"), Str("-"), Str("*"), Str("//"), Str("**"),
     List(<<List(<<Num(3)>>), Str("-"), Num(2)>>),
     List(<<Str("+"), Num(2)>>)}

ArithArgs == UNION {[1..n -> ArithTokens] : n \in 0..MaxArithLen}

NewArithFace == faces = <<>> /\ Construct("A", <<>>, <<1, 1>>, <<>>)

ResolveArith ==
    /\ resolutions = <<>>
    /\ \E f \in DOMAIN faces, args \in ArithArgs : ResolveValue(f, Arith(List(args)))

NextArith ==
    \/ NewArithFace
    \/ ResolveArith

SpecArith == Init /\ [][NextArith]_vars

\* what an infix expression is worth: a value, an error (an operator without
\* an operand on one side, an operand that is no number, several values and
\* no operator between them), or neither for what the expression leaves
\* open (no value at all, a division by zero)
Worth(kind, value) == [kind |-> kind, value |-> value]

\* the operators of items, a sequence of values, that bind the least
Loosest(items) ==
    LET at(group) == {i \in DOMAIN items :
                        items[i].t = "str" /\ items[i].s \in ArithmeticOrder[group]}
    IN IF at(3) # {} THEN at(3) ELSE IF at(2) # {} THEN at(2) ELSE at(1)

\* the worth of items, none of which is a list: the expression splits at the
\* last of its loosest operators, whose left operand is all that is before it
RECURSIVE InfixOf(_)
InfixOf(items) ==
    IF items = <<>> THEN Worth("open", None)
    ELSE IF Loosest(items) = {}
    THEN (IF Len(items) = 1 THEN Worth("value", items[1]) ELSE Worth("error", None))
    ELSE LET k == CHOOSE i \in Loosest(items) : \A j \in Loosest(items) : j <= i
             left == InfixOf(SubSeq(items, 1, k - 1))
             right == InfixOf(SubSeq(items, k + 1, Len(items)))
             applied == Arithmetic(items[k].s, left.value.n, right.value.n)
         IN IF k = 1 \/ k = Len(items) THEN Worth("error", None)
            ELSE IF left.kind = "error" \/ right.kind = "error" THEN Worth("error", None)
            ELSE IF left.kind = "open" \/ right.kind = "open" THEN Worth("open", None)
            ELSE IF ~IsNumber(left.value) \/ ~IsNumber(right.value)
            THEN Worth("error", None)
            ELSE IF applied.exc # "none" THEN Worth("open", None)
            ELSE Worth("value", Num(applied.n))

\* the worth of a list, its sub-lists being worth what they are in brackets
RECURSIVE Infix(_)
Infix(list) ==
    LET subs == [i \in DOMAIN list.c |->
                    IF list.c[i].v.t = "list" THEN Infix(list.c[i].v)
                    ELSE Worth("value", list.c[i].v)]
    IN IF \E i \in DOMAIN subs : subs[i].kind = "error" THEN Worth("error", None)
       ELSE IF \E i \in DOMAIN subs : subs[i].kind = "open" THEN Worth("open", None)
       ELSE InfixOf([i \in DOMAIN subs |-> subs[i].value])

\* C26: the arith resolver ends on every argument list, returns what the
\* list is worth as an infix expression with sub-lists in brackets, ** before
\* * / // % before + -, each group from the left, and raises where that
\* expression has an operator without an operand on one side, an operand
\* that is no number, or several values left.
C26_ArithIsInfix ==
    \A r \in DOMAIN resolutions :
        LET worth == Infix(Get(resolutions[r].value, "args"))
        IN /\ resolutions[r].exc # Unending
           /\ worth.kind = "value" =>
                /\ resolutions[r].exc = "none"
                /\ resolutions[r].result = worth.value
           /\ worth.kind = "error" => resolutions[r].exc = "ValueError"

\* 2 ** 3 ** 2 has been resolved, to 64
C26_Witness ==
    \E r \in DOMAIN resolutions :
        /\ Get(resolutions[r].value, "args")
            = List(<<Num(2), Str("**"), Num(3), Str("**"), Num(2)>>)
        /\ resolutions[r].exc = "none"
        /\ resolutions[r].result = Num(64)

\* C27: a resolution of a cached expression leaves the cache of every face
\* as it was, the deferred expressions its entries hold included.
C27_CachedReadKeepsCache ==
    [][(/\ Len(resolutions') > Len(resolutions)
        /\ DeferredValueType(resolutions'[Len(resolutions')].value) = "cached")
       => cache' = cache]_vars

-----------------------------------------------------------------------------
(* Generations one after the other: a template T whose steps are
   write_to_cache steps of one or two entries, a face F that refers to T and
   has no steps of its own, and MaxGenerations generate() calls on the two. *)

MaxRepeatSteps == 2

\* the entries of a step with whether it is lazy: y is written as the
\* expression cached y, lazily or eagerly
RepeatEntries ==
    {<<<<<<"x", Num(1)>>>>, TRUE>>,
     <<<<<<"y", Num(1)>>>>, TRUE>>,
     <<<<<<"x", Num(1)>>, <<"y", Num(2)>>>>, TRUE>>,
     <<<<<<"x", Num(1)>>, <<"y", Cached(Str("y"))>>>>, TRUE>>,
     <<<<<<"x", Num(1)>>, <<"y", Cached(Str("y"))>>>>, FALSE>>}

RepeatPool ==
    {Step("write_to_cache", NoPriority, e[1], mode, e[2], is_global, "a") :
        e \in RepeatEntries, mode \in Modes, is_global \in BOOLEAN}

NewRepeatTemplate ==
    /\ faces = <<>>
    /\ \E steps \in StepLists(RepeatPool, MaxRepeatSteps) :
           Construct("T", <<>>, <<1, 1>>, steps)

NewInheritingFace ==
    /\ Len(faces) = 1
    /\ Construct("F", <<1>>, NoSize, <<>>)

NextRepeat ==
    \/ NewRepeatTemplate
    \/ NewInheritingFace
    \/ Len(faces) = 2 /\ \E f \in DOMAIN faces : Generate(f)
    \/ StepWriteToCache
    \/ GenerateReturn

SpecRepeat == Init /\ [][NextRepeat]_vars

\* the generate() call in progress ends at this step, having begun right
\* after a generate() call that returned, on a face with the same steps
FollowsReturned ==
    /\ Len(stack) = 1
    /\ stack' = <<>>
    /\ Top.before.op = "generate"
    /\ Top.before.kind = "returned"
    /\ StepsOf(Top.before.face) = StepsOf(Top.face)

\* it returns, the canvas the call before returned
ReturnsTheSame ==
    /\ outcome'.kind = "returned"
    /\ outcome'.result = Top.before.result

\* C28 as stated: a generate() call that follows one that returned, on a face
\* with the same write_to_cache steps, returns too, with the same canvas,
\* whatever the modes and is_global of the steps.
C28_GenerateRepeatable == [][FollowsReturned => ReturnsTheSame]_vars

\* no step of face f writes to the global cache in a mode that looks a key
\* up there and raises or skips when it finds it
NoGlobalAdd(f) ==
    \A i \in DOMAIN StepsOf(f) :
        StepsOf(f)[i].is_global => StepsOf(f)[i].mode \notin {"add", "add_or_skip"}

\* C28, amended: a generate() call that follows one that returned, on a face
\* with the same write_to_cache steps, returns too, with the same canvas,
\* when no step with is_global true has the mode add or add_or_skip.
C28_RepeatableWithoutGlobalAdd ==
    [][(FollowsReturned /\ NoGlobalAdd(Top.face)) => ReturnsTheSame]_vars

\* a second generate() call, on the other face, has run its steps, one of
\* them writing to the global cache, after the first call returned
C28_Witness ==
    /\ Len(stack) = 1
    /\ Top.pos > Len(Top.ordered_steps)
    /\ Top.before.op = "generate"
    /\ Top.before.kind = "returned"
    /\ Top.before.face # Top.face
    /\ StepsOf(Top.before.face) = StepsOf(Top.face)
    /\ NoGlobalAdd(Top.face)
    /\ \E i \in DOMAIN StepsOf(Top.face) :
          StepsOf(Top.face)[i].is_global /\ StepsOf(Top.face)[i].mode = "update"

Holds(c, j) ==
    /\ CurrentStep.entries[j][1] \in DOMAIN c
    /\ CurrentStep.is_lazy => c[CurrentStep.entries[j][1]] = CurrentStep.entries[j][2]

\* the j-th entry of the current step is one the step raises on: its key is
\* there in mode add, missing in mode update, the mode is none of the four,
\* or the step is to resolve its value now and the value reads a key that
\* neither the cache nor an earlier entry of the step has
Refused(j) ==
    LET f == Top.face
        entry == CurrentStep.entries[j]
        there == \/ entry[1] \in DOMAIN cache[f]
                 \/ CurrentStep.is_global /\ entry[1] \in DOMAIN global_cache
        missing == \/ entry[1] \notin DOMAIN cache[f]
                   \/ CurrentStep.is_global /\ entry[1] \notin DOMAIN global_cache
    IN \/ CurrentStep.mode = "add" /\ there
       \/ CurrentStep.mode = "update" /\ missing
       \/ CurrentStep.mode \notin {"add", "update", "add_or_update", "add_or_skip"}
       \/ /\ ~CurrentStep.is_lazy
          /\ ~(CurrentStep.mode = "add_or_skip" /\ there)
          /\ DeferredValueType(entry[2]) = "cached"
          /\ Get(entry[2], "key").s \notin
                DOMAIN cache[f] \cup {CurrentStep.entries[e][1] : e \in 1..(j - 1)}

-----------------------------------------------------------------------------
(* Dispatch: one face of at most MaxDispatchSteps paste_image steps, of two
   images and every priority, and its generations. *)

MaxDispatchSteps == 3

DispatchPool == {PasteImageStep(p, i) : p \in Priorities, i \in Images}

NewDispatchCard ==
    /\ faces = <<>>
    /\ \E steps \in StepLists(DispatchPool, MaxDispatchSteps) :
           Construct("card", <<>>, <<1, 1>>, steps)

NextDispatch ==
    \/ NewDispatchCard
    \/ \E f \in DOMAIN faces : Generate(f)
    \/ StepPasteImage
    \/ GenerateReturn

SpecDispatch == Init /\ [][NextDispatch]_vars

\* C30: a generate() call that returned, no handler having raised, executed
\* every step of cumulative_steps exactly once, whether the sort by priority
\* succeeded or fell back to declaration order, and each handler was given
\* the canvas the one before it returned: the canvas returned holds the
\* images of the steps in the order they were executed in.
C30_EveryStepOnce ==
    (Ended /\ outcome.kind = "returned") =>
        LET steps == StepsOf(outcome.face)
            executed == outcome.executed
        IN /\ Len(executed) = Len(steps)
           /\ \A i \in DOMAIN steps :
                Cardinality({a \in DOMAIN executed : executed[a] = i}) = 1
           /\ outcome.result.layers
                = [a \in DOMAIN executed |-> steps[executed[a]].image]

\* a generate() call returned whose sort failed part-way, after it had moved
\* a step, and whose steps paste different images
C30_Witness ==
    /\ Ended
    /\ outcome.kind = "returned"
    /\ Len(outcome.executed) = 3
    /\ Orderable(Prio(outcome.face, 1), Prio(outcome.face, 2))
    /\ Prio(outcome.face, 2).val < Prio(outcome.face, 1).val
    /\ ~Orderable(Prio(outcome.face, 2), Prio(outcome.face, 3))
    /\ StepsOf(outcome.face)[1].image # StepsOf(outcome.face)[2].image
    /\ outcome.result.layers # <<>>

====
